---- MODULE Spec2Model ----
(***************************************************************************)
(* Authentication core of the Online Raithu Bazaar backend:                *)
(*   utils/password.ts   hashPassword / comparePassword (PBKDF2, base64)   *)
(*   utils/jwt.ts        generateToken / verifyToken                       *)
(*   services/user-service.ts, migrations/0001  the User table             *)
(*   services/auth-service.ts   AuthService.signup / login                 *)
(*   routes/auth.ts      POST /sign-up and /log-in                         *)
(* Requests are async handlers: every `await` of a store call is a point   *)
(* where another request may run.                                          *)
(***************************************************************************)
EXTENDS Integers, Sequences, FiniteSets, TLC

(* ------------------------------------------------------------------ *)
(* Program constants (utils/password.ts, services/auth-service.ts)     *)
(* ------------------------------------------------------------------ *)
SALT_LENGTH == 16
ITERATIONS == 100000
HASH_LENGTH == 32
HmacBlockLen == 64
TokenTtl == 24 * 60 * 60

(* ------------------------------------------------------------------ *)
(* Bounds of the model                                                 *)
(* ------------------------------------------------------------------ *)
NumSalts == 2
MaxNow == 0

(* ------------------------------------------------------------------ *)
(* Inputs. A password is a JavaScript string: a sequence of UTF-16     *)
(* code units.                                                         *)
(* ------------------------------------------------------------------ *)
PwSecret == <<115, 101, 99, 114, 101, 116>>
PwSecretNul == <<115, 101, 99, 114, 101, 116, 0>>
PwWrong == <<119, 114, 111, 110, 103>>
Passwords == {PwSecret, PwSecretNul, PwWrong}

(* crypto.getRandomValues(new Uint8Array(SALT_LENGTH)): any 16 bytes;  *)
(* the model draws from NumSalts of them.                              *)
SaltBytes(k) == [i \in 1..SALT_LENGTH |-> (k * 53 + i * 11) % 256]
Salts == {SaltBytes(k) : k \in 1..NumSalts}

(* ------------------------------------------------------------------ *)
(* new TextEncoder().encode(password): UTF-8, a lone surrogate becomes *)
(* U+FFFD                                                              *)
(* ------------------------------------------------------------------ *)
IsHighSurrogate(c) == c >= 55296 /\ c <= 56319
IsLowSurrogate(c) == c >= 56320 /\ c <= 57343

RECURSIVE TextEncodeFrom(_, _)
TextEncodeFrom(u, i) ==
  IF i > Len(u) THEN <<>>
  ELSE LET c == u[i] IN
    IF c < 128 THEN <<c>> \o TextEncodeFrom(u, i + 1)
    ELSE IF c < 2048
      THEN <<192 + (c \div 64), 128 + (c % 64)>> \o TextEncodeFrom(u, i + 1)
    ELSE IF IsHighSurrogate(c) /\ i < Len(u) /\ IsLowSurrogate(u[i + 1])
      THEN LET cp == 65536 + (c - 55296) * 1024 + (u[i + 1] - 56320) IN
           <<240 + (cp \div 262144), 128 + ((cp \div 4096) % 64),
             128 + ((cp \div 64) % 64), 128 + (cp % 64)>>
             \o TextEncodeFrom(u, i + 2)
    ELSE IF IsHighSurrogate(c) \/ IsLowSurrogate(c)
      THEN <<239, 191, 189>> \o TextEncodeFrom(u, i + 1)
    ELSE <<224 + (c \div 4096), 128 + ((c \div 64) % 64), 128 + (c % 64)>>
           \o TextEncodeFrom(u, i + 1)

TextEncode(u) == TextEncodeFrom(u, 1)

(* ------------------------------------------------------------------ *)
(* btoa / atob                                                         *)
(* ------------------------------------------------------------------ *)
B64Chars ==
  <<"A","B","C","D","E","F","G","H","I","J","K","L","M","N","O","P",
    "Q","R","S","T","U","V","W","X","Y","Z","a","b","c","d","e","f",
    "g","h","i","j","k","l","m","n","o","p","q","r","s","t","u","v",
    "w","x","y","z","0","1","2","3","4","5","6","7","8","9","+","/">>
B64Pad == "="
B64Space == " "

B64Char(v) == B64Chars[v + 1]
B64Value(c) == (CHOOSE i \in 1..Len(B64Chars) : B64Chars[i] = c) - 1
IsB64Char(c) == \E i \in 1..Len(B64Chars) : B64Chars[i] = c

(* btoa(String.fromCharCode(...bytes)): three bytes give four characters *)
RECURSIVE BtoaFrom(_, _)
BtoaFrom(b, i) ==
  LET n == Len(b) - i + 1 IN
  IF n <= 0 THEN <<>>
  ELSE IF n = 1 THEN
    <<B64Char(b[i] \div 4), B64Char((b[i] % 4) * 16), B64Pad, B64Pad>>
  ELSE IF n = 2 THEN
    <<B64Char(b[i] \div 4),
      B64Char((b[i] % 4) * 16 + (b[i + 1] \div 16)),
      B64Char((b[i + 1] % 16) * 4), B64Pad>>
  ELSE
    <<B64Char(b[i] \div 4),
      B64Char((b[i] % 4) * 16 + (b[i + 1] \div 16)),
      B64Char((b[i + 1] % 16) * 4 + (b[i + 2] \div 64)),
      B64Char(b[i + 2] % 64)>> \o BtoaFrom(b, i + 3)

Btoa(b) == BtoaFrom(b, 1)

(* atob: forgiving-base64 decode. Result [ok, bytes]; ok = FALSE is the   *)
(* InvalidCharacterError it throws.                                       *)
StripSpace(s) == SelectSeq(s, LAMBDA c : c # B64Space)

StripPad(s) ==
  IF Len(s) % 4 = 0 /\ Len(s) > 0 /\ s[Len(s)] = B64Pad
    THEN IF s[Len(s) - 1] = B64Pad THEN SubSeq(s, 1, Len(s) - 2)
                                   ELSE SubSeq(s, 1, Len(s) - 1)
    ELSE s

RECURSIVE AtobFrom(_, _)
AtobFrom(s, i) ==
  LET n == Len(s) - i + 1 IN
  IF n <= 1 THEN <<>>
  ELSE LET v1 == B64Value(s[i])
           v2 == B64Value(s[i + 1]) IN
    IF n = 2 THEN <<v1 * 4 + (v2 \div 16)>>
    ELSE LET v3 == B64Value(s[i + 2]) IN
      IF n = 3 THEN <<v1 * 4 + (v2 \div 16), (v2 % 16) * 16 + (v3 \div 4)>>
      ELSE LET v4 == B64Value(s[i + 3]) IN
        <<v1 * 4 + (v2 \div 16), (v2 % 16) * 16 + (v3 \div 4),
          (v3 % 4) * 64 + v4>> \o AtobFrom(s, i + 4)

Atob(str) ==
  LET s == StripPad(StripSpace(str)) IN
  IF Len(s) % 4 = 1 \/ \E i \in 1..Len(s) : ~IsB64Char(s[i])
    THEN [ok |-> FALSE, bytes |-> <<>>]
    ELSE [ok |-> TRUE, bytes |-> AtobFrom(s, 1)]

(* ------------------------------------------------------------------ *)
(* crypto.subtle.importKey('raw', ...) and deriveBits (PBKDF2 with     *)
(* HMAC-SHA-256). The PRF is HMAC keyed with the password bytes: HMAC  *)
(* pads a key shorter than its 64-byte block with zero bytes (the      *)
(* model's passwords are all shorter than the block). The digest is    *)
(* abstracted by a mixing function that is collision-free on the       *)
(* model's inputs: only the key block, the salt, the iteration count   *)
(* and the output length decide the derived bits.                      *)
(* ------------------------------------------------------------------ *)
GetPasswordKey(password) ==
  LET raw == TextEncode(password) IN
  raw \o [i \in 1..(HmacBlockLen - Len(raw)) |-> 0]

(* h2 is never negative: the test makes TLC evaluate it at each byte  *)
(* instead of building one nested expression over the whole block.   *)
RECURSIVE Mix(_, _, _)
Mix(b, i, h) ==
  IF i > Len(b) THEN h
  ELSE LET h2 == (h * 33 + b[i] + i) % 65536 IN
       IF h2 >= 0 THEN Mix(b, i + 1, h2) ELSE 0

DeriveBits(saltBuf, iterations, baseKey, nbits) ==
  LET seed == Mix(baseKey \o saltBuf, 1, iterations % 65536) IN
  [i \in 1..(nbits \div 8) |->
     ((seed \div (2 ^ ((i - 1) % 16))) * 37 + i) % 256]

(* ------------------------------------------------------------------ *)
(* utils/password.ts                                                   *)
(* ------------------------------------------------------------------ *)
(* variant: the derived key stored before the salt *)
hashPassword_KeyFirst(password, salt) ==
  Btoa(DeriveBits(salt, ITERATIONS, GetPasswordKey(password),
                  HASH_LENGTH * 8) \o salt)

(* variant: the salt buffer is never filled with random bytes *)
hashPassword_ZeroSalt(password, salt) ==
  LET zero == [i \in 1..SALT_LENGTH |-> 0]
      key == GetPasswordKey(password)
      hash == DeriveBits(zero, ITERATIONS, key, HASH_LENGTH * 8)
  IN Btoa(zero \o hash)

hashPassword(password, salt) ==
  LET key == GetPasswordKey(password)
      hash == DeriveBits(salt, ITERATIONS, key, HASH_LENGTH * 8)
      combinedArray == salt \o hash
  IN Btoa(combinedArray)

(* Uint8Array.prototype.slice(start, end): indexes from 0, end         *)
(* exclusive, both clamped to the length of the array.                *)
Slice(arr, start, end) ==
  LET lo == IF start > Len(arr) THEN Len(arr) ELSE start
      hi == IF end > Len(arr) THEN Len(arr) ELSE end
  IN IF hi <= lo THEN <<>> ELSE SubSeq(arr, lo + 1, hi)

(* hash.every((value, index) => value === newHashArray[index]):        *)
(* Array.prototype.every stops at the first callback that returns      *)
(* false. Result [ok, calls]: the verdict and the number of callback   *)
(* calls (byte comparisons) made.                                      *)
RECURSIVE EveryFrom(_, _, _)
EveryFrom(arr, other, index) ==
  IF index > Len(arr) THEN [ok |-> TRUE, calls |-> index - 1]
  ELSE IF index <= Len(other) /\ arr[index] = other[index]
    THEN EveryFrom(arr, other, index + 1)
    ELSE [ok |-> FALSE, calls |-> index]

Every(arr, other) == EveryFrom(arr, other, 1)

(* variant: comparePassword without the length test before every()    *)
comparePasswordRun_NoLengthCheck(password, storedHash) ==
  LET decoded == Atob(storedHash) IN
  IF ~decoded.ok THEN [ok |-> FALSE, calls |-> 0, threw |-> TRUE]
  ELSE
    LET combined == decoded.bytes
        salt == Slice(combined, 0, SALT_LENGTH)
        hash == Slice(combined, SALT_LENGTH, Len(combined))
        key == GetPasswordKey(password)
        newHashArray == DeriveBits(salt, ITERATIONS, key, HASH_LENGTH * 8)
        r == Every(hash, newHashArray)
    IN [ok |-> r.ok, calls |-> r.calls, threw |-> FALSE]

(* Result [ok, calls, threw]: the boolean returned, the byte           *)
(* comparisons made, whether the catch block produced the result.      *)
comparePasswordRun(password, storedHash) ==
  LET decoded == Atob(storedHash) IN
  IF ~decoded.ok THEN [ok |-> FALSE, calls |-> 0, threw |-> TRUE]
  ELSE
    LET combined == decoded.bytes
        salt == Slice(combined, 0, SALT_LENGTH)
        hash == Slice(combined, SALT_LENGTH, Len(combined))
        key == GetPasswordKey(password)
        newHashArray == DeriveBits(salt, ITERATIONS, key, HASH_LENGTH * 8)
    IN IF Len(hash) # Len(newHashArray)
         THEN [ok |-> FALSE, calls |-> 0, threw |-> FALSE]
         ELSE LET r == Every(hash, newHashArray) IN
              [ok |-> r.ok, calls |-> r.calls, threw |-> FALSE]

comparePassword(password, storedHash) ==
  comparePasswordRun(password, storedHash).ok

(* ------------------------------------------------------------------ *)
(* Requests, inputs and the User table                                 *)
(* ------------------------------------------------------------------ *)
Reqs == {"r1", "r2"}
(* the strings of the model that z.string().email() accepts *)
Emails == {"a@x.com", "A@x.com", "b@x.com"}

(* request bodies the clients send *)
SignupBodies ==
  {[email |-> "a@x.com", password |-> PwSecret, name |-> "Alice",
    role |-> "farmer"],
   [email |-> "b@x.com", password |-> PwSecretNul, name |-> "Bob",
    role |-> "consumer"],
   [email |-> "a@x.com", password |-> PwWrong, name |-> "Alice",
    role |-> "farmer"]}
LoginBodies ==
  {[email |-> "a@x.com", password |-> PwSecret],
   [email |-> "a@x.com", password |-> PwSecretNul],
   [email |-> "a@x.com", password |-> PwWrong],
   [email |-> "b@x.com", password |-> PwSecret]}

(* bodies that exercise the schemas: an email in another letter case,  *)
(* a role outside the enum, a string that is no email, a short         *)
(* password, an empty name                                             *)
InputSignupBodies ==
  {[email |-> "a@x.com", password |-> PwSecret, name |-> "Alice",
    role |-> "farmer"],
   [email |-> "A@x.com", password |-> PwSecret, name |-> "Alice",
    role |-> "farmer"],
   [email |-> "b@x.com", password |-> PwSecret, name |-> "Bob",
    role |-> "admin"],
   [email |-> "not-an-email", password |-> PwSecret, name |-> "Bob",
    role |-> "consumer"],
   [email |-> "b@x.com", password |-> PwWrong, name |-> "Bob",
    role |-> "consumer"],
   [email |-> "b@x.com", password |-> PwSecret, name |-> "",
    role |-> "consumer"]}
InputLoginBodies ==
  {[email |-> "a@x.com", password |-> PwSecret],
   [email |-> "A@x.com", password |-> PwSecret],
   [email |-> "a@x.com", password |-> PwWrong],
   [email |-> "not-an-email", password |-> PwSecret]}

(* env.JWT_SECRET, a JavaScript string; JwtSecretNul is JwtSecret      *)
(* followed by U+0000                                                  *)
JwtSecret == <<107, 49>>
JwtSecretNul == <<107, 49, 0>>
JwtOther == <<107, 50>>
JwtSecrets == {JwtSecret, JwtSecretNul, JwtOther}

(* Concurrent users of the Prisma client: request handlers, and runs of the
   unhandledrejection listener. *)
Handlers == {"h1", "h2"}
Disconnects == {"d1", "d2"}
Dbs == {"dbA", "dbB"}
MaxClients == 3

VARIABLES
  users,       \* rows of table "User"
  nextId,      \* the AUTOINCREMENT sequence of "User".id
  req,         \* per request slot: position in its handler and its locals
  registered,  \* history: email -> plaintext passwords of successful signups
  hp,          \* a direct caller of hashPassword / comparePassword
  jw,          \* a direct caller of generateToken / verifyToken, and its clock
  bodies,      \* the request bodies the clients send, per route
  pr           \* utils/prisma.ts: the module-level client reference and its users

vars == <<users, nextId, req, registered, hp, jw, bodies, pr>>

IdleReq ==
  [pc |-> "idle", kind |-> "none", email |-> "", password |-> <<>>,
   name |-> "", role |-> "", user |-> <<>>, passwordHash |-> <<>>,
   error |-> <<>>, inserts |-> 0, response |-> <<>>,
   storeCalls |-> 0, storeFailed |-> FALSE, logged |-> <<>>]

IdleHp ==
  [pc |-> "idle", password |-> <<>>, salt |-> <<>>, stored |-> <<>>,
   salt2 |-> <<>>, stored2 |-> <<>>, altered |-> 0,
   candidate |-> <<>>, result |-> FALSE, result2 |-> FALSE, calls |-> 0]

IdleJw ==
  [pc |-> "idle", now |-> 0, claim |-> <<>>, secret |-> <<>>,
   token |-> <<>>, altered |-> "none", vsecret |-> <<>>, vnow |-> 0,
   result |-> <<>>, expired |-> FALSE]

(* utils/prisma.ts, initial module state: "let prisma" is undefined, no
   client has been constructed, no handler is running. *)
IdleHandler ==
  [pc |-> "idle", db |-> "none", client |-> 0, onClosing |-> FALSE,
   onOtherDb |-> FALSE]

IdleDisconnect == [pc |-> "idle", target |-> 0]

IdlePr ==
  [prisma |-> 0, clients |-> <<>>,
   handler |-> [h \in Handlers |-> IdleHandler],
   disconnect |-> [d \in Disconnects |-> IdleDisconnect]]

(* ------------------------------------------------------------------ *)
(* routes/auth.ts: schemas and error mapping                           *)
(* ------------------------------------------------------------------ *)
IsEmail(e) == e \in Emails

(* variant: role accepted as any string *)
signupSchema_AnyRole(body) ==
  /\ IsEmail(body.email)
  /\ Len(body.password) >= 6
  /\ body.name # ""

signupSchema(body) ==
  /\ IsEmail(body.email)
  /\ Len(body.password) >= 6
  /\ body.name # ""
  /\ body.role \in {"farmer", "consumer"}

loginSchema(body) == IsEmail(body.email)

(* what c.req.json() rejects with when the body is not JSON *)
JsonSyntaxError == [name |-> "SyntaxError", message |-> "Unexpected token"]
ZodError == [name |-> "ZodError", message |-> "Invalid input"]
UserExistsError == [name |-> "Error", message |-> "User already exists"]
InvalidLoginError == [name |-> "Error", message |-> "Invalid email or password"]
(* what prisma.user.create rejects with when User_email_key is violated *)
UniqueConstraintError ==
  [name |-> "PrismaClientKnownRequestError",
   message |-> "Unique constraint failed on the fields: email"]
(* any other rejection of a store call *)
StoreError ==
  [name |-> "PrismaClientUnknownRequestError", message |-> "store unavailable"]

ErrorResponse(status, message) ==
  [status |-> status, message |-> message, accessToken |-> <<>>,
   expiresIn |-> 0, user |-> <<>>]

OuterCatch(error) ==
  IF error.name = "ZodError" THEN ErrorResponse(400, "Invalid input")
  ELSE ErrorResponse(500, "An unknown error occurred")

(* variant: the sign-up route without its inner catch *)
SignUpCatch_OuterOnly(error) == OuterCatch(error)

SignUpCatch(error) ==
  IF error.message = "User already exists"
    THEN ErrorResponse(409, "User already exists")
    ELSE OuterCatch(error)

LogInCatch(error) ==
  IF error.message = "Invalid email or password"
    THEN ErrorResponse(401, "Invalid email or password")
    ELSE OuterCatch(error)

RouteCatch(kind, error) ==
  IF kind = "signup" THEN SignUpCatch(error) ELSE LogInCatch(error)

(* console.error('Sign-up error:', error) / ('Login error:', error):   *)
(* reached by the errors that neither catch answers before it          *)
RouteLog(kind, error) ==
  IF RouteCatch(kind, error).status = 500 THEN <<error>> ELSE <<>>

(* the handler ends: the error its service call threw, what the route  *)
(* wrote to the console and the response                               *)
Fail(q, error) ==
  [q EXCEPT !.pc = "done", !.error = <<error>>,
            !.logged = RouteLog(q.kind, error),
            !.response = <<RouteCatch(q.kind, error)>>]

(* an awaited call of the user service was made; it rejected with a    *)
(* failure other than the unique constraint                            *)
StoreCall(q) == [q EXCEPT !.storeCalls = @ + 1]
StoreFailure(q) == Fail([StoreCall(q) EXCEPT !.storeFailed = TRUE], StoreError)

(* ------------------------------------------------------------------ *)
(* utils/jwt.ts and AuthService.generateAuthResponse                   *)
(* ------------------------------------------------------------------ *)
(* JSON.stringify writes the own properties in insertion order;       *)
(* JSON.parse reads them back by name. The text is modelled as the    *)
(* sequence of its name/value pairs.                                  *)
TokenHeader == [alg |-> "HS256", typ |-> "JWT"]
HeaderKeys == <<"alg", "typ">>
PayloadKeys == <<"userId", "email", "name", "role", "iat", "exp">>

JsonStringify(obj, keys) == [i \in 1..Len(keys) |-> <<keys[i], obj[keys[i]]>>]

JsonParse(text) ==
  [k \in {text[i][1] : i \in 1..Len(text)} |->
     text[CHOOSE i \in 1..Len(text) : text[i][1] = k][2]]

(* base64url without padding: the characters of a part carry the data *)
(* bits and, in the last character, unused low bits that the encoder  *)
(* writes as zero and the decoder (atob) drops without looking at     *)
(* them.                                                              *)
EncodeBase64Url(data) == [data |-> data, padBits |-> 0]
DecodeBase64Url(part) == part.data

(* importKey('raw', utf8(secret), HMAC SHA-256) and sign: HMAC pads a  *)
(* key shorter than its block with zero bytes; the digest is kept      *)
(* abstract, one value per (key block, message).                       *)
HmacKey(secret) ==
  LET raw == TextEncode(secret) IN
  raw \o [i \in 1..(HmacBlockLen - Len(raw)) |-> 0]

HmacSha256(secret, message) == [key |-> HmacKey(secret), message |-> message]

(* variant: the signature covers the payload part only *)
generateToken_SignPayloadOnly(payload, secret) ==
  LET encodedHeader == EncodeBase64Url(JsonStringify(TokenHeader, HeaderKeys))
      encodedPayload == EncodeBase64Url(JsonStringify(payload, PayloadKeys))
      signature == EncodeBase64Url(HmacSha256(secret, <<encodedPayload>>))
  IN <<encodedHeader, encodedPayload, signature>>

(* sign(payload, secret): the token string header.payload.signature,   *)
(* modelled as the sequence of its dot-separated parts.                *)
generateToken(payload, secret) ==
  LET encodedHeader == EncodeBase64Url(JsonStringify(TokenHeader, HeaderKeys))
      encodedPayload == EncodeBase64Url(JsonStringify(payload, PayloadKeys))
      partialToken == <<encodedHeader, encodedPayload>>
      signature == EncodeBase64Url(HmacSha256(secret, partialToken))
  IN <<encodedHeader, encodedPayload, signature>>

decode(token) ==
  [header |-> JsonParse(DecodeBase64Url(token[1])),
   payload |-> JsonParse(DecodeBase64Url(token[2]))]

JwtError(name) == [ok |-> FALSE, error |-> name, payload |-> <<>>]

(* variant: a token is expired only after its exp second has passed *)
verifyToken_ExpiredAfterExp(token, secret, now) ==
  IF Len(token) # 3 THEN JwtError("JwtTokenInvalid")
  ELSE LET d == decode(token) IN
    IF d.header.alg # "HS256" THEN JwtError("JwtHeaderInvalid")
    ELSE IF d.payload.exp # 0 /\ d.payload.exp < now
      THEN JwtError("JwtTokenExpired")
    ELSE IF d.payload.iat # 0 /\ now < d.payload.iat
      THEN JwtError("JwtTokenIssuedAt")
    ELSE IF DecodeBase64Url(token[3])
              # HmacSha256(secret, <<token[1], token[2]>>)
      THEN JwtError("JwtTokenSignatureMismatched")
    ELSE [ok |-> TRUE, error |-> "", payload |-> <<d.payload>>]

(* verify(token, secret) at clock reading now (seconds): three parts,  *)
(* header, exp (a falsy exp is not checked; expired when exp <= now),  *)
(* iat, then the signature over header.payload.                        *)
verifyToken(token, secret, now) ==
  IF Len(token) # 3 THEN JwtError("JwtTokenInvalid")
  ELSE LET d == decode(token) IN
    IF d.header.alg # "HS256" THEN JwtError("JwtHeaderInvalid")
    ELSE IF d.payload.exp # 0 /\ d.payload.exp <= now
      THEN JwtError("JwtTokenExpired")
    ELSE IF d.payload.iat # 0 /\ now < d.payload.iat
      THEN JwtError("JwtTokenIssuedAt")
    ELSE IF DecodeBase64Url(token[3])
              # HmacSha256(secret, <<token[1], token[2]>>)
      THEN JwtError("JwtTokenSignatureMismatched")
    ELSE [ok |-> TRUE, error |-> "", payload |-> <<d.payload>>]

(* Column "name" is TEXT without NOT NULL: a row written by another   *)
(* writer may hold NULL there, which Prisma returns as null. SqlNull  *)
(* stands for it; no request body of the model carries this string.   *)
SqlNull == "<NULL>"

(* user.name || '' *)
OrEmpty(name) == IF name = SqlNull THEN "" ELSE name

(* variant: the name copied as it is in the row *)
SessionClaim_RawName(user, t1, t2) ==
  [userId |-> user.id, email |-> user.email, name |-> user.name,
   role |-> user.role, iat |-> t1, exp |-> t2 + TokenTtl]

(* the JWTPayload built for a user; t1, t2: the two readings of       *)
(* Date.now(), in seconds                                              *)
SessionClaim(user, t1, t2) ==
  [userId |-> user.id, email |-> user.email, name |-> OrEmpty(user.name),
   role |-> user.role, iat |-> t1, exp |-> t2 + TokenTtl]

(* variant: the response carries the row itself as the user view *)
generateAuthResponse_WholeRow(user, jwtSecret, t1, t2) ==
  [status |-> 200, message |-> "",
   accessToken |-> <<generateToken(SessionClaim(user, t1, t2), jwtSecret)>>,
   expiresIn |-> TokenTtl,
   user |-> <<user>>]

generateAuthResponse(user, jwtSecret, t1, t2) ==
  LET payload == SessionClaim(user, t1, t2)
  IN [status |-> 200, message |-> "",
      accessToken |-> <<generateToken(payload, jwtSecret)>>,
      expiresIn |-> TokenTtl,
      user |-> <<[id |-> user.id, email |-> user.email,
                  name |-> OrEmpty(user.name), role |-> user.role,
                  profileCompleted |-> user.profile_completed]>>]

(* ------------------------------------------------------------------ *)
(* The User table (migrations/0001) behind PrismaUserService           *)
(* ------------------------------------------------------------------ *)
(* variant: the lookup returns a row whatever its email *)
FindUnique_AnyRow(email) ==
  IF users # {} THEN <<CHOOSE u \in users : TRUE>> ELSE <<>>

(* prisma.user.findUnique({ where: { email } }) *)
FindUnique(email) ==
  IF \E u \in users : u.email = email
    THEN <<CHOOSE u \in users : u.email = email>>
    ELSE <<>>

(* variant: the table without its unique index *)
UniqueViolation_NoIndex(email) == FALSE

(* CREATE UNIQUE INDEX "User_email_key" ON "User"("email") *)
UniqueViolation(email) == \E u \in users : u.email = email

(* variant: the id column without its AUTOINCREMENT sequence *)
NewUser_NoSequence(userData) ==
  [id |-> 1, email |-> userData.email, name |-> userData.name,
   password_hash |-> userData.passwordHash, role |-> userData.role,
   profile_completed |-> userData.profileCompleted]

NewUser(userData) ==
  [id |-> nextId, email |-> userData.email, name |-> userData.name,
   password_hash |-> userData.passwordHash, role |-> userData.role,
   profile_completed |-> userData.profileCompleted]

(* ------------------------------------------------------------------ *)
(* POST /sign-up and POST /log-in up to the first await of the service *)
(* ------------------------------------------------------------------ *)
(* variant: the route looks the email up before it validates the body *)
SignUpRoute_LookupFirst(r) ==
  /\ req[r].pc = "idle"
  /\ \/ req' = [req EXCEPT ![r] =
                  Fail([IdleReq EXCEPT !.kind = "signup"], JsonSyntaxError)]
     \/ \E body \in bodies.signup :
          LET q == [IdleReq EXCEPT !.kind = "signup", !.email = body.email,
                                   !.password = body.password,
                                   !.name = body.name, !.role = body.role]
              looked == [StoreCall(q) EXCEPT !.user = FindUnique(body.email)]
          IN req' = [req EXCEPT ![r] =
                       IF signupSchema(body)
                         THEN [q EXCEPT !.pc = "getUserByEmail"]
                         ELSE Fail(looked, ZodError)]
  /\ UNCHANGED <<users, nextId, registered, hp, jw, bodies, pr>>

SignUpRoute(r) ==
  /\ req[r].pc = "idle"
  /\ \/ req' = [req EXCEPT ![r] =
                  Fail([IdleReq EXCEPT !.kind = "signup"], JsonSyntaxError)]
     \/ \E body \in bodies.signup :
          LET q == [IdleReq EXCEPT !.kind = "signup", !.email = body.email,
                                   !.password = body.password,
                                   !.name = body.name, !.role = body.role]
          IN req' = [req EXCEPT ![r] =
                       IF signupSchema(body)
                         THEN [q EXCEPT !.pc = "getUserByEmail"]
                         ELSE Fail(q, ZodError)]
  /\ UNCHANGED <<users, nextId, registered, hp, jw, bodies, pr>>

LogInRoute(r) ==
  /\ req[r].pc = "idle"
  /\ \/ req' = [req EXCEPT ![r] =
                  Fail([IdleReq EXCEPT !.kind = "login"], JsonSyntaxError)]
     \/ \E body \in bodies.login :
          LET q == [IdleReq EXCEPT !.kind = "login", !.email = body.email,
                                   !.password = body.password]
          IN req' = [req EXCEPT ![r] =
                       IF loginSchema(body)
                         THEN [q EXCEPT !.pc = "getUserByEmail"]
                         ELSE Fail(q, ZodError)]
  /\ UNCHANGED <<users, nextId, registered, hp, jw, bodies, pr>>

(* ------------------------------------------------------------------ *)
(* PrismaUserService.getUserByEmail: the awaited lookup                *)
(* ------------------------------------------------------------------ *)
(* variant: a failed lookup is taken for 'no such user' *)
GetUserByEmail_FailureAsNull(r) ==
  /\ req[r].pc = "getUserByEmail"
  /\ \/ req' = [req EXCEPT ![r] =
                  [StoreCall(req[r]) EXCEPT !.storeFailed = TRUE,
                                            !.user = <<>>,
                                            !.pc = "afterLookup"]]
     \/ req' = [req EXCEPT ![r] =
                  [StoreCall(req[r]) EXCEPT !.user = FindUnique(req[r].email),
                                            !.pc = "afterLookup"]]
  /\ UNCHANGED <<users, nextId, registered, hp, jw, bodies, pr>>

GetUserByEmail(r) ==
  /\ req[r].pc = "getUserByEmail"
  /\ \/ req' = [req EXCEPT ![r] = StoreFailure(req[r])]
     \/ req' = [req EXCEPT ![r] =
                  [StoreCall(req[r]) EXCEPT !.user = FindUnique(req[r].email),
                                            !.pc = "afterLookup"]]
  /\ UNCHANGED <<users, nextId, registered, hp, jw, bodies, pr>>

(* ------------------------------------------------------------------ *)
(* AuthService.signup after the lookup: the existence check and        *)
(* hashPassword                                                        *)
(* ------------------------------------------------------------------ *)
(* variant: signup without the existence check *)
SignupAfterLookup_NoCheck(q, salt) ==
  [q EXCEPT !.passwordHash = hashPassword(q.password, salt),
            !.pc = "createUser"]

(* variant: the password is stored base64-encoded instead of hashed *)
SignupAfterLookup_EncodeOnly(q, salt) ==
  IF q.user # <<>>
    THEN Fail(q, UserExistsError)
    ELSE [q EXCEPT !.passwordHash = Btoa(TextEncode(q.password)),
                   !.pc = "createUser"]

SignupAfterLookup(q, salt) ==
  IF q.user # <<>>
    THEN Fail(q, UserExistsError)
    ELSE [q EXCEPT !.passwordHash = hashPassword(q.password, salt),
                   !.pc = "createUser"]

Signup(r) ==
  /\ req[r].pc = "afterLookup"
  /\ req[r].kind = "signup"
  /\ \E salt \in Salts :
       req' = [req EXCEPT ![r] = SignupAfterLookup(req[r], salt)]
  /\ UNCHANGED <<users, nextId, registered, hp, jw, bodies, pr>>

(* ------------------------------------------------------------------ *)
(* PrismaUserService.createUser: the awaited insert                    *)
(* ------------------------------------------------------------------ *)
(* variant: the row is written although the call rejects *)
CreateUser_WriteThenFail(r) ==
  /\ req[r].pc = "createUser"
  /\ ~UniqueViolation(req[r].email)
  /\ users' = users \cup
       {NewUser([email |-> req[r].email, passwordHash |-> req[r].passwordHash,
                 name |-> req[r].name, role |-> req[r].role,
                 profileCompleted |-> FALSE])}
  /\ nextId' = nextId + 1
  /\ req' = [req EXCEPT ![r] = StoreFailure(req[r])]
  /\ UNCHANGED <<registered, hp, jw, bodies, pr>>

(* variant: signup goes on to the token as soon as the insert is sent, *)
(* whether or not the row is written                                  *)
CreateUser_TokenBeforeInsert(r) ==
  /\ req[r].pc = "createUser"
  /\ LET q == StoreCall(req[r])
         userData == [email |-> q.email, passwordHash |-> q.passwordHash,
                      name |-> q.name, role |-> q.role,
                      profileCompleted |-> FALSE]
     IN /\ req' = [req EXCEPT ![r] = [q EXCEPT !.user = <<NewUser(userData)>>,
                                               !.pc = "generateAuthResponse"]]
        /\ UNCHANGED <<users, nextId, registered>>
  /\ UNCHANGED <<hp, jw, bodies, pr>>

CreateUser(r) ==
  /\ req[r].pc = "createUser"
  /\ LET q == StoreCall(req[r])
         userData == [email |-> q.email, passwordHash |-> q.passwordHash,
                      name |-> q.name, role |-> q.role,
                      profileCompleted |-> FALSE]
     IN \/ /\ req' = [req EXCEPT ![r] = StoreFailure(req[r])]
           /\ UNCHANGED <<users, nextId, registered>>
        \/ /\ UniqueViolation(q.email)
           /\ req' = [req EXCEPT ![r] = Fail(q, UniqueConstraintError)]
           /\ UNCHANGED <<users, nextId, registered>>
        \/ /\ ~UniqueViolation(q.email)
           /\ users' = users \cup {NewUser(userData)}
           /\ nextId' = nextId + 1
           /\ registered' = [registered EXCEPT ![q.email] = @ \cup {q.password}]
           /\ req' = [req EXCEPT ![r] = [q EXCEPT !.user = <<NewUser(userData)>>,
                                                  !.inserts = @ + 1,
                                                  !.pc = "generateAuthResponse"]]
  /\ UNCHANGED <<hp, jw, bodies, pr>>

(* ------------------------------------------------------------------ *)
(* AuthService.login after the lookup: comparePassword                 *)
(* ------------------------------------------------------------------ *)
(* variant: a distinct error for an unknown email *)
LoginAfterLookup_UserNotFound(q) ==
  IF q.user = <<>>
    THEN Fail(q, [name |-> "Error", message |-> "User not found"])
    ELSE IF ~comparePassword(q.password, q.user[1].password_hash)
      THEN Fail(q, InvalidLoginError)
      ELSE [q EXCEPT !.pc = "generateAuthResponse"]

LoginAfterLookup(q) ==
  IF q.user = <<>>
    THEN Fail(q, InvalidLoginError)
    ELSE IF ~comparePassword(q.password, q.user[1].password_hash)
      THEN Fail(q, InvalidLoginError)
      ELSE [q EXCEPT !.pc = "generateAuthResponse"]

(* variant: a login that re-hashes the stored password on success *)
Login_Rehash(r) ==
  /\ req[r].pc = "afterLookup"
  /\ req[r].kind = "login"
  /\ req' = [req EXCEPT ![r] = LoginAfterLookup(req[r])]
  /\ users' =
       IF req'[r].pc = "generateAuthResponse"
         THEN (users \ {req[r].user[1]}) \cup
              {[req[r].user[1] EXCEPT
                  !.password_hash = hashPassword(req[r].password, SaltBytes(1))]}
         ELSE users
  /\ UNCHANGED <<nextId, registered, hp, jw, bodies, pr>>

Login(r) ==
  /\ req[r].pc = "afterLookup"
  /\ req[r].kind = "login"
  /\ req' = [req EXCEPT ![r] = LoginAfterLookup(req[r])]
  /\ UNCHANGED <<users, nextId, registered, hp, jw, bodies, pr>>

(* ------------------------------------------------------------------ *)
(* AuthService.generateAuthResponse and c.json(result). Date.now() is  *)
(* read twice: the second reading t2 may fall in the next second.      *)
(* ------------------------------------------------------------------ *)
GenerateAuthResponse(r) ==
  /\ req[r].pc = "generateAuthResponse"
  /\ \E t1 \in 0..MaxNow, d \in {0, 1} :
       /\ req' = [req EXCEPT ![r] =
                    [req[r] EXCEPT !.pc = "done",
                        !.response = <<generateAuthResponse(req[r].user[1], JwtSecret, t1, t1 + d)>>]]
  /\ UNCHANGED <<users, nextId, registered, hp, jw, bodies, pr>>

(* the response has been sent; the slot takes the next request *)
Finish(r) ==
  /\ req[r].pc = "done"
  /\ req' = [req EXCEPT ![r] = IdleReq]
  /\ UNCHANGED <<users, nextId, registered, hp, jw, bodies, pr>>

(* ------------------------------------------------------------------ *)
(* The service                                                         *)
(* ------------------------------------------------------------------ *)
Init ==
  /\ users = {}
  /\ nextId = 1
  /\ req = [r \in Reqs |-> IdleReq]
  /\ registered = [e \in Emails |-> {}]
  /\ hp = IdleHp
  /\ jw = IdleJw
  /\ bodies = [signup |-> SignupBodies, login |-> LoginBodies]
  /\ pr = IdlePr

Next ==
  \/ \E r \in Reqs : SignUpRoute(r)
  \/ \E r \in Reqs : LogInRoute(r)
  \/ \E r \in Reqs : GetUserByEmail(r)
  \/ \E r \in Reqs : Signup(r)
  \/ \E r \in Reqs : CreateUser(r)
  \/ \E r \in Reqs : Login(r)
  \/ \E r \in Reqs : GenerateAuthResponse(r)
  \/ \E r \in Reqs : Finish(r)

Spec == Init /\ [][Next]_vars

(* ------------------------------------------------------------------ *)
(* A direct caller of utils/password.ts: hashPassword(p), then         *)
(* comparePassword(c, stored), where stored is the hash returned or    *)
(* that hash with one byte of its derived key changed; or it hashes    *)
(* the same password a second time and compares against both outputs.  *)
(* ------------------------------------------------------------------ *)
HashPasswordCall ==
  /\ hp.pc = "idle"
  /\ \E password \in Passwords, salt \in Salts :
       hp' = [IdleHp EXCEPT !.pc = "hashed", !.password = password,
                            !.salt = salt,
                            !.stored = hashPassword(password, salt)]
  /\ UNCHANGED <<users, nextId, req, registered, jw, bodies, pr>>

(* a second hashPassword call with the same password: getRandomValues  *)
(* draws again, and nothing keeps it from drawing the same bytes       *)
HashPasswordAgain ==
  /\ hp.pc = "hashed"
  /\ hp.altered = 0
  /\ hp.stored2 = <<>>
  /\ \E salt \in Salts :
       hp' = [hp EXCEPT !.salt2 = salt,
                        !.stored2 = hashPassword(hp.password, salt)]
  /\ UNCHANGED <<users, nextId, req, registered, jw, bodies, pr>>

AlterByte(bytes, k) ==
  [i \in 1..Len(bytes) |-> IF i = k THEN (bytes[i] + 1) % 256 ELSE bytes[i]]

AlterStored ==
  /\ hp.pc = "hashed"
  /\ hp.altered = 0
  /\ hp.stored2 = <<>>
  /\ \E k \in 1..HASH_LENGTH :
       hp' = [hp EXCEPT !.altered = k,
                 !.stored = Btoa(AlterByte(Atob(hp.stored).bytes, SALT_LENGTH + k))]
  /\ UNCHANGED <<users, nextId, req, registered, jw, bodies, pr>>

ComparePasswordCall ==
  /\ hp.pc = "hashed"
  /\ \E candidate \in Passwords :
       LET run == comparePasswordRun(candidate, hp.stored) IN
       hp' = [hp EXCEPT !.pc = "compared", !.candidate = candidate,
                        !.result = run.ok, !.calls = run.calls,
                        !.result2 = IF hp.stored2 = <<>> THEN FALSE
                                    ELSE comparePassword(candidate, hp.stored2)]
  /\ UNCHANGED <<users, nextId, req, registered, jw, bodies, pr>>

HpReset ==
  /\ hp.pc = "compared"
  /\ hp' = IdleHp
  /\ UNCHANGED <<users, nextId, req, registered, jw, bodies, pr>>

NextHash ==
  \/ HashPasswordCall
  \/ HashPasswordAgain
  \/ AlterStored
  \/ ComparePasswordCall
  \/ HpReset

SpecHash == Init /\ [][NextHash]_vars

(* ------------------------------------------------------------------ *)
(* Log-ins against a table that another writer filled: one row for     *)
(* a@x.com whose password_hash is the hash of PwSecret or a damaged    *)
(* copy of it.                                                         *)
(* ------------------------------------------------------------------ *)
GoodHash == hashPassword(PwSecret, SaltBytes(1))

DamagedHashes ==
  {<<"!">> \o SubSeq(GoodHash, 2, Len(GoodHash)),
   SubSeq(GoodHash, 1, Len(GoodHash) - 3),
   SubSeq(GoodHash, 1, Len(GoodHash) - 4),
   GoodHash \o <<"A", "A", "A", "A">>,
   <<"Q", "Q">>,
   <<>>}

StoredRow(h) ==
  [id |-> 1, email |-> "a@x.com", name |-> "Alice", password_hash |-> h,
   role |-> "farmer", profile_completed |-> FALSE]

InitStored ==
  /\ \E h \in {GoodHash} \cup DamagedHashes : users = {StoredRow(h)}
  /\ nextId = 2
  /\ req = [r \in Reqs |-> IdleReq]
  /\ registered = [e \in Emails |-> {}]
  /\ hp = IdleHp
  /\ jw = IdleJw
  /\ bodies = [signup |-> {}, login |-> LoginBodies]
  /\ pr = IdlePr

NextLogin ==
  \/ \E r \in Reqs : LogInRoute(r)
  \/ \E r \in Reqs : GetUserByEmail(r)
  \/ \E r \in Reqs : Login(r)
  \/ \E r \in Reqs : GenerateAuthResponse(r)
  \/ \E r \in Reqs : Finish(r)

SpecStored == InitStored /\ [][NextLogin]_vars

(* ------------------------------------------------------------------ *)
(* Two requests, one per slot, that arrive at a table holding no row,  *)
(* the row of a@x.com, the rows of a@x.com and b@x.com, or the row of  *)
(* a@x.com after another writer cleared its name and set               *)
(* profile_completed, and run interleaved; no slot takes a second      *)
(* request.                                                            *)
(* ------------------------------------------------------------------ *)
StoredRowB ==
  [id |-> 2, email |-> "b@x.com", name |-> "Bob",
   password_hash |-> hashPassword(PwSecretNul, SaltBytes(1)),
   role |-> "consumer", profile_completed |-> FALSE]

StoredRowCompleted ==
  [StoredRow(GoodHash) EXCEPT !.name = SqlNull, !.profile_completed = TRUE]

InitPair ==
  /\ users \in {{}, {StoredRow(GoodHash)}, {StoredRow(GoodHash), StoredRowB},
                {StoredRowCompleted}}
  /\ nextId = Cardinality(users) + 1
  /\ req = [r \in Reqs |-> IdleReq]
  /\ registered = [e \in Emails |->
                     IF e = "a@x.com" /\ users # {} THEN {PwSecret}
                     ELSE IF e = "b@x.com" /\ StoredRowB \in users
                       THEN {PwSecretNul}
                       ELSE {}]
  /\ hp = IdleHp
  /\ jw = IdleJw
  /\ bodies = [signup |-> SignupBodies, login |-> LoginBodies]
  /\ pr = IdlePr

NextPair ==
  \/ \E r \in Reqs : SignUpRoute(r)
  \/ \E r \in Reqs : LogInRoute(r)
  \/ \E r \in Reqs : GetUserByEmail(r)
  \/ \E r \in Reqs : Signup(r)
  \/ \E r \in Reqs : CreateUser(r)
  \/ \E r \in Reqs : Login(r)
  \/ \E r \in Reqs : GenerateAuthResponse(r)

SpecPair == InitPair /\ [][NextPair]_vars

(* ------------------------------------------------------------------ *)
(* The routes under bodies that exercise the schemas, on an empty      *)
(* table.                                                              *)
(* ------------------------------------------------------------------ *)
InitInput ==
  /\ users = {}
  /\ nextId = 1
  /\ req = [r \in Reqs |-> IdleReq]
  /\ registered = [e \in Emails |-> {}]
  /\ hp = IdleHp
  /\ jw = IdleJw
  /\ bodies = [signup |-> InputSignupBodies, login |-> InputLoginBodies]
  /\ pr = IdlePr

SpecInput == InitInput /\ [][Next]_vars

(* ------------------------------------------------------------------ *)
(* A caller of the token functions: it obtains the token of an auth    *)
(* response for a user, may alter the token, and calls verifyToken     *)
(* with some secret as its clock advances.                             *)
(* ------------------------------------------------------------------ *)
ClockValues == {0, 1, TokenTtl - 1, TokenTtl, TokenTtl + 1, TokenTtl + 2}

TokenUsers ==
  {StoredRow(GoodHash),
   [id |-> 2, email |-> "b@x.com", name |-> SqlNull,
    password_hash |-> GoodHash, role |-> "consumer",
    profile_completed |-> TRUE]}

Alterations ==
  {"payload", "exp", "signature", "padBits", "twoParts", "fourParts"}

AlteredToken(token, kind) ==
  LET payload == decode(token).payload IN
  CASE kind = "payload" ->
         <<token[1],
           EncodeBase64Url(JsonStringify([payload EXCEPT !.role = "admin"],
                                         PayloadKeys)),
           token[3]>>
    [] kind = "exp" ->
         <<token[1],
           EncodeBase64Url(JsonStringify(
             [payload EXCEPT !.exp = payload.exp + TokenTtl], PayloadKeys)),
           token[3]>>
    [] kind = "signature" ->
         <<token[1], token[2],
           EncodeBase64Url(HmacSha256(<<>>, <<token[1], token[2]>>))>>
    [] kind = "padBits" ->
         <<token[1], token[2], [token[3] EXCEPT !.padBits = 1]>>
    [] kind = "twoParts" -> <<token[1], token[2]>>
    [] kind = "fourParts" -> token \o <<token[3]>>

Tick ==
  /\ \E t \in ClockValues : t > jw.now /\ jw' = [jw EXCEPT !.now = t]
  /\ UNCHANGED <<users, nextId, req, registered, hp, bodies, pr>>

IssueToken ==
  /\ jw.pc = "idle"
  /\ \E user \in TokenUsers, secret \in {JwtSecret, JwtOther}, d \in {0, 1} :
       jw' = [jw EXCEPT
                !.pc = "issued",
                !.now = jw.now + d,
                !.claim = <<SessionClaim(user, jw.now, jw.now + d)>>,
                !.secret = secret,
                !.token = generateAuthResponse(user, secret, jw.now,
                                               jw.now + d).accessToken[1]]
  /\ UNCHANGED <<users, nextId, req, registered, hp, bodies, pr>>

AlterToken ==
  /\ jw.pc \in {"issued", "verified"}
  /\ jw.altered = "none"
  /\ \E kind \in Alterations :
       jw' = [jw EXCEPT !.altered = kind,
                        !.token = AlteredToken(jw.token, kind)]
  /\ UNCHANGED <<users, nextId, req, registered, hp, bodies, pr>>

VerifyTokenCall ==
  /\ jw.pc \in {"issued", "verified"}
  /\ \E secret \in JwtSecrets :
       LET result == verifyToken(jw.token, secret, jw.now) IN
       jw' = [jw EXCEPT !.pc = "verified", !.vsecret = secret,
                        !.vnow = jw.now,
                        !.result = <<result>>,
                        !.expired = jw.expired
                                    \/ result.error = "JwtTokenExpired"]
  /\ UNCHANGED <<users, nextId, req, registered, hp, bodies, pr>>

NextToken ==
  \/ Tick
  \/ IssueToken
  \/ AlterToken
  \/ VerifyTokenCall

SpecToken == Init /\ [][NextToken]_vars

(* ------------------------------------------------------------------ *)
(* utils/prisma.ts: the module-level client and its teardown           *)
(* ------------------------------------------------------------------ *)
(* new PrismaClient(...): a client remembers the database its adapter was
   built on; it is connected until $disconnect resolves. *)
NewClient(db) == [db |-> db, status |-> "live"]

(* getPrismaClient(d1Database): the existing reference is returned whatever
   the argument is; otherwise a client is constructed on d1Database and kept
   in the module-level reference. *)
getPrismaClient(p, db) ==
  IF p.prisma # 0
    THEN [state |-> p, client |-> p.prisma]
    ELSE [state |-> [p EXCEPT !.clients = Append(@, NewClient(db)),
                              !.prisma = Len(p.clients) + 1],
          client |-> Len(p.clients) + 1]

CanGet(p) == p.prisma # 0 \/ Len(p.clients) < MaxClients

(* index.ts middleware: getPrismaClient(c.env.DB); await next() *)
PrismaMiddleware(h) ==
  /\ pr.handler[h].pc = "idle"
  /\ CanGet(pr)
  /\ \E db \in Dbs :
       LET got == getPrismaClient(pr, db) IN
         pr' = [got.state EXCEPT !.handler[h] =
                  [IdleHandler EXCEPT !.pc = "route", !.db = db]]
  /\ UNCHANGED <<users, nextId, req, registered, hp, jw, bodies>>

(* routes/auth.ts after "await c.req.json()": createAuthService(secret,
   c.env.DB) -> new AuthService -> createUserService -> new
   PrismaUserService, whose constructor keeps getPrismaClient(d1Database)
   in this.prisma. *)
CreateUserService(h) ==
  /\ pr.handler[h].pc = "route"
  /\ CanGet(pr)
  /\ LET got == getPrismaClient(pr, pr.handler[h].db) IN
       pr' = [got.state EXCEPT !.handler[h].pc = "service",
                               !.handler[h].client = got.client]
  /\ UNCHANGED <<users, nextId, req, registered, hp, jw, bodies>>

(* PrismaUserService.getUserByEmail / createUser: this.prisma.user.*  The
   operation runs on the client the service captured. *)
StoreOperation(h) ==
  /\ pr.handler[h].pc = "service"
  /\ LET c == pr.clients[pr.handler[h].client] IN
       pr' = [pr EXCEPT !.handler[h].pc = "done",
                        !.handler[h].onClosing = c.status # "live",
                        !.handler[h].onOtherDb = c.db # pr.handler[h].db]
  /\ UNCHANGED <<users, nextId, req, registered, hp, jw, bodies>>

HandlerReturn(h) ==
  /\ pr.handler[h].pc = "done"
  /\ pr' = [pr EXCEPT !.handler[h] = IdleHandler]
  /\ UNCHANGED <<users, nextId, req, registered, hp, jw, bodies>>

(* disconnectPrisma up to its await: "if (prisma)" passes and
   prisma.$disconnect() is started on the current client. *)
DisconnectBegin(d) ==
  /\ pr.disconnect[d].pc = "idle"
  /\ pr.prisma # 0
  /\ pr' = [pr EXCEPT !.disconnect[d] = [pc |-> "awaiting", target |-> pr.prisma],
                      !.clients[pr.prisma].status = "closing"]
  /\ UNCHANGED <<users, nextId, req, registered, hp, jw, bodies>>

(* disconnectPrisma after the await: $disconnect has resolved on the client
   it was called on, and "prisma = undefined" clears the module reference,
   whatever it refers to by now. *)
DisconnectEnd(d) ==
  /\ pr.disconnect[d].pc = "awaiting"
  /\ pr' = [pr EXCEPT !.disconnect[d] = IdleDisconnect,
                      !.clients[pr.disconnect[d].target].status = "closed",
                      !.prisma = 0]
  /\ UNCHANGED <<users, nextId, req, registered, hp, jw, bodies>>

NextPrisma ==
  \/ \E h \in Handlers : PrismaMiddleware(h)
  \/ \E h \in Handlers : CreateUserService(h)
  \/ \E h \in Handlers : StoreOperation(h)
  \/ \E h \in Handlers : HandlerReturn(h)
  \/ \E d \in Disconnects : DisconnectBegin(d)
  \/ \E d \in Disconnects : DisconnectEnd(d)

SpecPrisma == Init /\ [][NextPrisma]_vars

(* ================================================================== *)
(* Properties                                                          *)
(* ================================================================== *)
Done(q) == q.pc = "done"
Status(q) == q.response[1].status
Threw(q, error) == Done(q) /\ q.error = <<error>>

(* C1: in every reachable state of the store, whatever the interleaving *)
(* of sign-ups and log-ins, no two rows carry the same email.           *)
C1_OneRecordPerEmail ==
  \A u \in users, v \in users : u.email = v.email => u = v

(* two sign-ups for one email both passed the existence check and one   *)
(* of them was rejected by the index                                    *)
C1_Witness ==
  \E r \in Reqs :
    /\ Threw(req[r], UniqueConstraintError)
    /\ \E u \in users : u.email = req[r].email

(* C2: a sign-up whose lookup found a row throws 'User already exists'  *)
(* in its next step; that step leaves the table and the id sequence     *)
(* unchanged, computes no hash, inserts nothing and issues no token.    *)
C2_DuplicateSignupNoMutation ==
  [][\A r \in Reqs :
       (/\ req[r].pc = "afterLookup"
        /\ req[r].kind = "signup"
        /\ req[r].user # <<>>
        /\ req'[r] # req[r])
       => /\ Threw(req'[r], UserExistsError)
          /\ req'[r].response[1].accessToken = <<>>
          /\ req'[r].passwordHash = <<>>
          /\ req'[r].inserts = 0
          /\ users' = users
          /\ nextId' = nextId]_vars

C2_Witness ==
  \E r \in Reqs :
    /\ req[r].kind = "signup"
    /\ Threw(req[r], UserExistsError)
    /\ req[r].user # <<>>
    /\ users # {}

(* C3 (as claimed): a sign-up whose insert is rejected by the unique    *)
(* index on email ends with the conflict response of DuplicateUser.     *)
C3_UniqueViolationIsConflict ==
  \A r \in Reqs :
    Threw(req[r], UniqueConstraintError)
      => req[r].response = <<ErrorResponse(409, "User already exists")>>

(* C4: a log-in that fails because no row has the email and a log-in    *)
(* that fails because comparePassword rejects the password end with the *)
(* same thrown error and the same response.                             *)
NoSuchEmail(q) ==
  /\ q.kind = "login"
  /\ Done(q)
  /\ loginSchema([email |-> q.email, password |-> q.password])
  /\ q.error # <<StoreError>>
  /\ q.user = <<>>

WrongPassword(q) ==
  /\ q.kind = "login"
  /\ Done(q)
  /\ q.user # <<>>
  /\ ~comparePassword(q.password, q.user[1].password_hash)

C5_LoginWritesNothing ==
  [][\A r \in Reqs :
       ((req[r].kind = "login" \/ req'[r].kind = "login")
          /\ req'[r] # req[r])
       => (users' = users /\ nextId' = nextId)]_vars

C5_Witness ==
  \E r1 \in Reqs, r2 \in Reqs :
    /\ req[r1].kind = "login" /\ Done(req[r1]) /\ Status(req[r1]) = 200
    /\ req[r2].kind = "login" /\ Threw(req[r2], InvalidLoginError)
    /\ users # {}

(* C6: a sign-up that has answered 200 made exactly one insert, of a    *)
(* row with its email that is in the table; a sign-up that has answered *)
(* anything else made none; and a step of a sign-up either leaves the   *)
(* table alone or adds exactly one row, with the request's email.       *)
C6_SignupInsertCount ==
  \A r \in Reqs :
    (req[r].kind = "signup" /\ Done(req[r]))
      => IF Status(req[r]) = 200
           THEN /\ req[r].inserts = 1
                /\ req[r].user[1] \in users
                /\ req[r].user[1].email = req[r].email
           ELSE req[r].inserts = 0

C6_SignupStep ==
  \A r \in Reqs :
    (req[r].kind = "signup" /\ req'[r] # req[r])
      => \/ users' = users /\ req'[r].inserts \in {0, req[r].inserts}
         \/ /\ req'[r].inserts = req[r].inserts + 1
            /\ \E u \in users' \ users :
                 /\ users' = users \cup {u}
                 /\ u.email = req[r].email
                 /\ Cardinality(users') = Cardinality(users) + 1

C6_SignupOneInsert == [](C6_SignupInsertCount) /\ [][C6_SignupStep]_vars

C6_Witness ==
  \E r1 \in Reqs, r2 \in Reqs :
    /\ req[r1].kind = "signup" /\ Done(req[r1]) /\ Status(req[r1]) = 200
    /\ req[r2].kind = "signup" /\ Done(req[r2]) /\ Status(req[r2]) # 200

(* C7 (as claimed): once a sign-up with email e and password p has      *)
(* inserted its row, a log-in that finds the row succeeds with a token  *)
(* for e when its password is p and throws 'Invalid email or password'  *)
(* when it is not, and a sign-up that finds the row throws 'User        *)
(* already exists'.                                                     *)
C7_AfterSignup ==
  \A r \in Reqs :
    (Done(req[r]) /\ req[r].user # <<>> /\ req[r].error # <<StoreError>>)
      => IF req[r].kind = "login"
           THEN IF req[r].password \in registered[req[r].email]
                  THEN /\ Status(req[r]) = 200
                       /\ decode(req[r].response[1].accessToken[1]).payload.email
                            = req[r].email
                  ELSE req[r].error = <<InvalidLoginError>>
           ELSE req[r].inserts = 0 => req[r].error = <<UserExistsError>>

(* C8 (as claimed): comparePassword compares all HASH_LENGTH bytes of   *)
(* the stored key with the derived key, wherever they first differ.     *)
C8_NoEarlyExit ==
  (hp.pc = "compared" /\ Len(Atob(hp.stored).bytes) = SALT_LENGTH + HASH_LENGTH)
    => hp.calls = HASH_LENGTH

(* C9: comparePassword(p, hashPassword(p)) is true, for every password  *)
(* and every salt hashPassword drew.                                    *)
C9_HashThenCompare ==
  (hp.pc = "compared" /\ hp.altered = 0 /\ hp.candidate = hp.password)
    => hp.result = TRUE

C9_Witness ==
  /\ hp.pc = "compared"
  /\ hp.altered = 0
  /\ hp.candidate = hp.password
  /\ hp.result = TRUE

(* C10 (as claimed): comparePassword(p1, hashPassword(p2)) is false     *)
(* whenever p1 and p2 are different strings.                            *)
C10_OtherPasswordRejected ==
  (hp.pc = "compared" /\ hp.altered = 0 /\ hp.candidate # hp.password)
    => hp.result = FALSE

(* C11: comparePassword answers false, without throwing, for a stored   *)
(* string that atob rejects or that does not decode to SALT_LENGTH +    *)
(* HASH_LENGTH bytes; a log-in that finds such a row ends like one with *)
(* a wrong password: 'Invalid email or password', 401.                  *)
MalformedHash(h) ==
  \/ ~Atob(h).ok
  \/ Len(Atob(h).bytes) # SALT_LENGTH + HASH_LENGTH

C11_CorruptHashIsInvalidCredentials ==
  \A r \in Reqs :
    (/\ req[r].kind = "login"
     /\ req[r].pc \in {"generateAuthResponse", "done"}
     /\ req[r].user # <<>>
     /\ MalformedHash(req[r].user[1].password_hash))
    => /\ Threw(req[r], InvalidLoginError)
       /\ req[r].response = <<ErrorResponse(401, "Invalid email or password")>>

(* log-ins with the right password that met an undecodable hash and a   *)
(* truncated one                                                        *)
C11_Witness ==
  \E r \in Reqs :
    /\ req[r].kind = "login"
    /\ Done(req[r])
    /\ req[r].password = PwSecret
    /\ req[r].user # <<>>
    /\ MalformedHash(req[r].user[1].password_hash)
    /\ Threw(req[r], InvalidLoginError)

(* C12 as stated: two hashPassword calls with the same password return  *)
(* different strings.                                                   *)
C12_TwoHashesDiffer ==
  hp.stored2 # <<>> => hp.stored # hp.stored2

(* C12: two hashPassword calls with the same password whose random      *)
(* salts differ return different strings, and whatever the salts,       *)
(* comparePassword with that password is true for both strings.         *)
C12_DistinctSaltsDistinctHashes ==
  /\ (hp.stored2 # <<>> /\ hp.salt # hp.salt2) => hp.stored # hp.stored2
  /\ (hp.pc = "compared" /\ hp.stored2 # <<>> /\ hp.candidate = hp.password)
       => (hp.result = TRUE /\ hp.result2 = TRUE)

C12_Witness ==
  /\ hp.pc = "compared"
  /\ hp.stored2 # <<>>
  /\ hp.salt # hp.salt2
  /\ hp.stored # hp.stored2
  /\ hp.candidate = hp.password
  /\ hp.result = TRUE
  /\ hp.result2 = TRUE

C14_ExpiredRejected ==
  /\ (jw.pc = "verified" /\ jw.vnow > jw.claim[1].iat + TokenTtl)
       => ~jw.result[1].ok
  /\ (jw.pc = "verified" /\ jw.expired) => ~jw.result[1].ok

C14_Witness ==
  /\ jw.pc = "verified"
  /\ jw.altered = "none"
  /\ jw.vsecret = jw.secret
  /\ jw.claim[1].exp = jw.claim[1].iat + TokenTtl + 1
  /\ jw.vnow = jw.claim[1].exp
  /\ jw.expired
  /\ jw.result[1].error = "JwtTokenExpired"

(* C15 (as claimed): verifyToken returns no payload when the secret is  *)
(* not the signing secret or the token string was changed after it was  *)
(* issued.                                                              *)
C15_WrongSecretOrAlteredRejected ==
  (jw.pc = "verified" /\ (jw.vsecret # jw.secret \/ jw.altered # "none"))
    => ~jw.result[1].ok

(* C16 (as claimed): every 200 response of sign-up and log-in has       *)
(* expiresIn = 86400 and a token whose payload has exp = iat + 86400.   *)
C16_ExactTtl ==
  \A r \in Reqs :
    (Done(req[r]) /\ Status(req[r]) = 200)
      => /\ req[r].response[1].expiresIn = TokenTtl
         /\ LET payload == decode(req[r].response[1].accessToken[1]).payload
            IN payload.exp = payload.iat + TokenTtl

(* C17: the user object of every 200 response has exactly the fields    *)
(* id, email, name, role, profileCompleted (no password, no hash); for  *)
(* a sign-up profileCompleted is false in the response and in the row   *)
(* that was inserted.                                                   *)
C17_UserView ==
  \A r \in Reqs :
    (Done(req[r]) /\ Status(req[r]) = 200)
      => LET view == req[r].response[1].user[1] IN
         /\ DOMAIN view = {"id", "email", "name", "role", "profileCompleted"}
         /\ req[r].kind = "signup"
              => /\ view.profileCompleted = FALSE
                 /\ \E u \in users : /\ u.id = view.id
                                     /\ u.email = view.email
                                     /\ u.profile_completed = FALSE

C17_Witness ==
  /\ \E r \in Reqs : /\ Done(req[r]) /\ Status(req[r]) = 200
                     /\ req[r].kind = "signup"
                     /\ req[r].response[1].user[1].profileCompleted = FALSE
  /\ \E r \in Reqs : /\ Done(req[r]) /\ Status(req[r]) = 200
                     /\ req[r].kind = "login"
                     /\ req[r].response[1].user[1].email = req[r].email

(* C18 (as claimed): no two rows of the table have emails that differ   *)
(* only in letter case.                                                 *)
LowerCase(e) == IF e = "A@x.com" THEN "a@x.com" ELSE e

C18_EmailCaseInsensitive ==
  \A u, v \in users : LowerCase(u.email) = LowerCase(v.email) => u = v

(* C19: every row has role 'farmer' or 'consumer'; a sign-up whose body *)
(* parsed and carries another role ends with 400 'Invalid input' and    *)
(* inserts nothing.                                                     *)
C19_RoleClosedSet ==
  /\ \A u \in users : u.role \in {"farmer", "consumer"}
  /\ \A r \in Reqs :
       (/\ req[r].kind = "signup"
        /\ req[r].error # <<JsonSyntaxError>>
        /\ req[r].role \notin {"farmer", "consumer"})
       => /\ Done(req[r])
          /\ req[r].response = <<ErrorResponse(400, "Invalid input")>>
          /\ req[r].inserts = 0

C19_Witness ==
  /\ \E u \in users : u.role = "farmer"
  /\ \E r \in Reqs : /\ req[r].kind = "signup"
                     /\ req[r].role = "admin"
                     /\ Status(req[r]) = 400

(* C20: a sign-up that fails with 'User already exists' is answered     *)
(* 409, a request whose parsed body fails its schema 400, a log-in that *)
(* fails with 'Invalid email or password' 401; none of them 500.        *)
SchemaFails(q) ==
  /\ q.kind \in {"signup", "login"}
  /\ q.error # <<JsonSyntaxError>>
  /\ IF q.kind = "signup"
       THEN ~signupSchema([email |-> q.email, password |-> q.password,
                           name |-> q.name, role |-> q.role])
       ELSE ~loginSchema([email |-> q.email, password |-> q.password])

C21_StoreFailureState ==
  \A r \in Reqs :
    req[r].storeFailed
      => /\ Threw(req[r], StoreError)
         /\ req[r].response = <<ErrorResponse(500, "An unknown error occurred")>>
         /\ req[r].response[1].accessToken = <<>>
         /\ req[r].inserts = 0
         /\ req[r].storeCalls =
              IF req[r].kind = "signup" /\ req[r].passwordHash # <<>>
                THEN 2 ELSE 1

C21_StoreFailureStep ==
  \A r \in Reqs :
    (req[r].storeFailed /\ req'[r] # req[r])
      => /\ req'[r] = IdleReq
         /\ users' = users
         /\ nextId' = nextId

C21_StoreFailureSurfaced ==
  [](C21_StoreFailureState) /\ [][C21_StoreFailureStep]_vars

(* a sign-up whose insert failed and a log-in whose lookup failed *)
C21_Witness ==
  \E r1, r2 \in Reqs :
    /\ req[r1].kind = "signup" /\ req[r1].storeFailed
    /\ req[r1].storeCalls = 2
    /\ req[r2].kind = "login" /\ req[r2].storeFailed
    /\ Threw(req[r2], StoreError)

(* C22: the password_hash of every row is an output of hashPassword for *)
(* a password that signed up with the row's email, the errors thrown    *)
(* and the values written to the console are the fixed error values of  *)
(* the program and the store (none is built from the request body), on  *)
(* successful and failing requests alike.                               *)
FixedErrors ==
  {ZodError, UserExistsError, InvalidLoginError, UniqueConstraintError,
   StoreError, JsonSyntaxError}

HasherOutputs ==
  {<<p, hashPassword(p, salt)>> : p \in Passwords, salt \in Salts}

Inserted == {req[o].user[1] : o \in {o \in Reqs : req[o].inserts = 1}}
InitialUsers == users \ Inserted
InitialNextId == nextId - Cardinality(Inserted)
InitialRow(e) ==
  IF \E u \in InitialUsers : u.email = e
    THEN <<CHOOSE u \in InitialUsers : u.email = e>>
    ELSE <<>>

OnOwnEmail(r) ==
  /\ Done(req[r])
  /\ req[r].error \notin {<<JsonSyntaxError>>, <<ZodError>>}
  /\ \A o \in Reqs \ {r} : req[o].email # req[r].email

(* the outcomes of request q run alone from InitialUsers; sameId: the   *)
(* id of a new row is compared too                                      *)
AloneOutcome(q, sameId) ==
  LET row == InitialRow(q.email) IN
  \/ Threw(q, StoreError) /\ q.inserts = 0
  \/ /\ q.kind = "signup"
     /\ row # <<>>
     /\ Threw(q, UserExistsError) /\ Status(q) = 409 /\ q.inserts = 0
  \/ /\ q.kind = "signup"
     /\ row = <<>>
     /\ Status(q) = 200 /\ q.inserts = 1
     /\ q.user[1] \in users
     /\ <<q.password, q.user[1].password_hash>> \in HasherOutputs
     /\ LET view == q.response[1].user[1] IN
        /\ view.email = q.email /\ view.name = q.name /\ view.role = q.role
        /\ view.profileCompleted = FALSE
        /\ view.id = q.user[1].id
        /\ sameId => view.id = InitialNextId
  \/ /\ q.kind = "login"
     /\ q.inserts = 0
     /\ IF row # <<>> /\ comparePassword(q.password, row[1].password_hash)
          THEN /\ Status(q) = 200
               /\ q.response[1].user[1] =
                    [id |-> row[1].id, email |-> row[1].email,
                     name |-> OrEmpty(row[1].name), role |-> row[1].role,
                     profileCompleted |-> row[1].profile_completed]
          ELSE Threw(q, InvalidLoginError) /\ Status(q) = 401

(* C23 (as claimed): a request whose email no other request carries     *)
(* ends as it would alone from the table it arrived at, the id of a     *)
(* row it inserted included.                                            *)
C23_SameAsAlone ==
  \A r \in Reqs : OnOwnEmail(r) => AloneOutcome(req[r], TRUE)

(* C23: a request whose email no other request carries ends as it would *)
(* alone from the table it arrived at (status, error, user view, row    *)
(* inserted), except for the id the table assigns to a row it inserts.  *)
C23_SameAsAloneUpToId ==
  \A r \in Reqs : OnOwnEmail(r) => AloneOutcome(req[r], FALSE)

(* two interleaved sign-ups on different emails: the second to insert   *)
(* gets the id after the one it would get alone                         *)
C23_Witness ==
  \E r1, r2 \in Reqs :
    /\ OnOwnEmail(r1) /\ OnOwnEmail(r2)
    /\ req[r1].kind = "signup" /\ Status(req[r1]) = 200
    /\ req[r2].kind = "signup" /\ Status(req[r2]) = 200
    /\ req[r2].response[1].user[1].id = InitialNextId + 1

(* C24: in every 200 response the token's payload and the user object   *)
(* repeat the row the service got from the table (inserted by the       *)
(* sign-up, found by the log-in): id, email, role; name, with '' for a  *)
(* row without name; and in the user object the row's profile_completed *)
(* as the lookup read it, true for a row whose flag another writer set. *)
C24_BuiltFromRecord ==
  \A r \in Reqs :
    (Done(req[r]) /\ Status(req[r]) = 200)
      => LET row == req[r].user[1]
             name == IF row.name = SqlNull THEN "" ELSE row.name
             payload == decode(req[r].response[1].accessToken[1]).payload
             view == req[r].response[1].user[1]
         IN /\ row \in users
            /\ row.email = req[r].email
            /\ payload.userId = row.id /\ view.id = row.id
            /\ payload.email = row.email /\ view.email = row.email
            /\ payload.role = row.role /\ view.role = row.role
            /\ payload.name = name /\ view.name = name
            /\ view.profileCompleted = row.profile_completed

(* a log-in that found the row without name and with the flag set, and  *)
(* a sign-up answered from the row it inserted                          *)
C24_Witness ==
  \E r1, r2 \in Reqs :
    /\ req[r1].kind = "login" /\ Done(req[r1]) /\ Status(req[r1]) = 200
    /\ req[r1].user[1].name = SqlNull
    /\ req[r1].response[1].user[1].name = ""
    /\ req[r1].response[1].user[1].profileCompleted = TRUE
    /\ req[r2].kind = "signup" /\ Done(req[r2]) /\ Status(req[r2]) = 200
    /\ req[r2].response[1].user[1].profileCompleted = FALSE

(* C25: no two rows share an id, and every step of a sign-up or log-in  *)
(* leaves each row in the table with its id, email, password_hash and   *)
(* role (no row is changed in these columns, none is deleted).          *)
C25_UniqueIds ==
  \A u, v \in users : u.id = v.id => u = v

C25_RowsKept ==
  \A u \in users :
    \E v \in users' : /\ v.id = u.id
                      /\ v.email = u.email
                      /\ v.password_hash = u.password_hash
                      /\ v.role = u.role

C25_RecordsImmutable == [](C25_UniqueIds) /\ [][C25_RowsKept]_vars

(* two rows, and requests of both kinds answered after they were made   *)
C25_Witness ==
  /\ Cardinality(users) = 2
  /\ \E r1, r2 \in Reqs :
       /\ req[r1].kind = "login" /\ Done(req[r1]) /\ Status(req[r1]) = 200
       /\ req[r2].kind = "signup" /\ Threw(req[r2], UserExistsError)

(* C26: getPrismaClient hands out one client at a time: the module       *)
(* reference, when set, names a live client, and at most one client      *)
(* obtained through getPrismaClient is live in any reachable state.      *)
LiveClients == {i \in 1..Len(pr.clients) : pr.clients[i].status = "live"}

C26_AtMostOneLiveClient == Cardinality(LiveClients) <= 1

(* C27: no store operation of a request runs on a client whose           *)
(* disconnect has begun.                                                 *)
C27_NoOperationOnClosingClient ==
  \A h \in Handlers : ~pr.handler[h].onClosing

(* C28: every store operation of a request runs on a client built on the *)
(* database that was passed with that request.                           *)
C28_ClientBoundToRequestDb ==
  \A h \in Handlers : ~pr.handler[h].onOtherDb

(* C29: a sign-up looks the email up, then hashes, then inserts, then    *)
(* issues the token: the hash exists only after the lookup, the insert   *)
(* is made with that hash, and a request reaches token issuance only     *)
(* with a row of the table in hand (for a sign-up, the row its own       *)
(* insert wrote). Every step that answers 200 issues a token whose       *)
(* userId is the id of a row in the table at that step.                  *)
C29_OrderState ==
  \A r \in Reqs :
    LET q == req[r] IN
      /\ q.pc = "getUserByEmail"
           => q.storeCalls = 0 /\ q.passwordHash = <<>> /\ q.inserts = 0
      /\ q.pc = "afterLookup"
           => q.storeCalls = 1 /\ q.passwordHash = <<>> /\ q.inserts = 0
      /\ q.pc = "createUser"
           => /\ q.kind = "signup" /\ q.storeCalls = 1 /\ q.inserts = 0
              /\ q.user = <<>>
              /\ <<q.password, q.passwordHash>> \in HasherOutputs
      /\ (q.pc = "generateAuthResponse" \/ (Done(q) /\ Status(q) = 200))
           => /\ q.user # <<>> /\ q.user[1] \in users
              /\ q.kind = "signup"
                   => /\ q.storeCalls = 2 /\ q.inserts = 1
                      /\ q.user[1].password_hash = q.passwordHash
              /\ q.kind = "login" => q.storeCalls = 1 /\ q.inserts = 0

C29_IssueStep ==
  \A r \in Reqs :
    (req'[r].response # req[r].response /\ req'[r].response # <<>>
       /\ req'[r].response[1].accessToken # <<>>)
      => /\ req[r].pc = "generateAuthResponse"
         /\ \E u \in users :
              /\ u \in users'
              /\ decode(req'[r].response[1].accessToken[1]).payload.userId = u.id
              /\ u.email = req[r].email

C29_TokenAfterInsert == [](C29_OrderState) /\ [][C29_IssueStep]_vars

(* a sign-up answered with a token after its one insert, and a log-in    *)
(* answered with a token for a row of the table                          *)
C29_Witness ==
  \E r1, r2 \in Reqs :
    /\ req[r1].kind = "signup" /\ Done(req[r1]) /\ Status(req[r1]) = 200
    /\ req[r1].inserts = 1 /\ req[r1].storeCalls = 2
    /\ req[r1].response[1].accessToken # <<>>
    /\ req[r2].kind = "login" /\ Done(req[r2]) /\ Status(req[r2]) = 200
    /\ req[r2].response[1].accessToken # <<>>

(* C30: a request whose parsed body fails its schema has made no store   *)
(* call, inserted nothing, holds no row and is answered without a token; *)
(* the step that takes it leaves the table as it was.                    *)
C30_NoStoreAccessState ==
  \A r \in Reqs :
    SchemaFails(req[r])
      => /\ req[r].storeCalls = 0
         /\ req[r].inserts = 0
         /\ req[r].user = <<>>
         /\ req[r].passwordHash = <<>>
         /\ Done(req[r])
         /\ req[r].response[1].accessToken = <<>>
         /\ req[r].response[1].user = <<>>

C30_NoStoreAccessStep ==
  \A r \in Reqs :
    (SchemaFails(req'[r]) /\ req'[r] # req[r])
      => users' = users /\ nextId' = nextId

C30_ValidationFirst ==
  [](C30_NoStoreAccessState) /\ [][C30_NoStoreAccessStep]_vars

(* a sign-up and a log-in, each failing its schema, have been answered   *)
(* while the table holds a row                                           *)
C30_Witness ==
  /\ users # {}
  /\ \E r1, r2 \in Reqs :
       /\ req[r1].kind = "signup" /\ SchemaFails(req[r1])
       /\ req[r2].kind = "login" /\ SchemaFails(req[r2])

====
